---- MODULE Spec2Model ----
(***************************************************************************)
(* adp-driver-sync: the ADP client (package adp) and the command's main    *)
(* loop (cmd/adp-driver-sync).                                             *)
(*                                                                         *)
(* Go strings are modelled as sequences of one-character strings, so that  *)
(* strings.ToUpper, TrimSpace, Contains and EqualFold are computed and not *)
(* assumed.  Time is counted in minutes.                                   *)
(***************************************************************************)
EXTENDS Integers, Sequences, FiniteSets, TLC

Null == "null"
\* a nil *OAuth2Token
NoToken == [nil |-> TRUE]

Min(S) == CHOOSE x \in S : \A y \in S : x <= y
Max(S) == CHOOSE x \in S : \A y \in S : x >= y

\* ------------------------------------------------------------------ strings
Lower == <<"a","b","c","d","e","f","g","h","i","j","k","l","m",
           "n","o","p","q","r","s","t","u","v","w","x","y","z">>
Upper == <<"A","B","C","D","E","F","G","H","I","J","K","L","M",
           "N","O","P","Q","R","S","T","U","V","W","X","Y","Z">>

ToUpperChar(c) ==
    LET at == {i \in DOMAIN Lower : Lower[i] = c}
    IN IF at = {} THEN c ELSE Upper[CHOOSE i \in at : TRUE]

\* strings.ToUpper
ToUpper(s) == [i \in 1..Len(s) |-> ToUpperChar(s[i])]

IsSpace(c) == c \in {" ", "\t", "\n", "\r"}

\* strings.TrimSpace
TrimSpace(s) ==
    LET keep == {i \in 1..Len(s) : ~IsSpace(s[i])}
    IN IF keep = {} THEN <<>> ELSE SubSeq(s, Min(keep), Max(keep))

\* strings.Contains
Contains(s, sub) ==
    \E i \in 0..(Len(s) - Len(sub)) : SubSeq(s, i + 1, i + Len(sub)) = sub

\* strings.EqualFold (on the letters a-z, A-Z)
EqualFold(s, t) == ToUpper(s) = ToUpper(t)

\* string literals of the source
sOVERDRIVE      == <<"O","V","E","R","D","R","I","V","E">>
sOVERDRIVE_SYNC == <<"O","V","E","R","D","R","I","V","E"," ","S","Y","N","C">>
sOVERDRIVE_USYNC == <<"O","V","E","R","D","R","I","V","E","_","S","Y","N","C">>
sOVERDRIVESYNC  == <<"O","V","E","R","D","R","I","V","E","S","Y","N","C">>
sNo == <<"N","o">>
sA  == <<"A">>
sEmpty == <<>>

\* ------------------------------------------------- opt-out marker (package adp)
\* isOverdriveSyncField(nameCode ADPNameCode) bool
isOverdriveSyncField(nameCode) ==
    \E name \in {nameCode.CodeValue, nameCode.ShortName} :
        LET normalized == ToUpper(TrimSpace(name))
        IN \/ normalized = sOVERDRIVE_SYNC
           \/ normalized = sOVERDRIVE_USYNC
           \/ normalized = sOVERDRIVESYNC
           \/ Contains(normalized, sOVERDRIVE)

\* index of the first field of a list whose name code is the marker, 0 if none
FirstMarker(fields) ==
    LET hit == {i \in 1..Len(fields) : isOverdriveSyncField(fields[i].NameCode)}
    IN IF hit = {} THEN 0 ELSE Min(hit)

\* faulty variant: the code fields are searched before the string fields
searchCustomFieldGroup_CodeFirst(cfg) ==
    LET sf == FirstMarker(cfg.StringFields)
        cf == FirstMarker(cfg.CodeFields)
    IN IF cf > 0
       THEN [val |-> TrimSpace(cfg.CodeFields[cf].CodeValue), found |-> TRUE]
       ELSE IF sf > 0
       THEN [val |-> TrimSpace(cfg.StringFields[sf].StringValue), found |-> TRUE]
       ELSE [val |-> sEmpty, found |-> FALSE]

\* searchCustomFieldGroup(cfg ADPCustomFieldGroup) (string, bool)
searchCustomFieldGroup(cfg) ==
    LET sf == FirstMarker(cfg.StringFields)
        cf == FirstMarker(cfg.CodeFields)
    IN IF sf > 0
       THEN [val |-> TrimSpace(cfg.StringFields[sf].StringValue), found |-> TRUE]
       ELSE IF cf > 0
       THEN [val |-> TrimSpace(cfg.CodeFields[cf].CodeValue), found |-> TRUE]
       ELSE [val |-> sEmpty, found |-> FALSE]

\* index of the first work assignment that carries the marker, 0 if none
FirstMarkedAssignment(was) ==
    LET hit == {i \in 1..Len(was) : searchCustomFieldGroup(was[i].CustomFieldGroup).found}
    IN IF hit = {} THEN 0 ELSE Min(hit)

\* faulty variant: the work assignments are searched before the worker's own fields
getOverdriveSyncValue_AssignmentsFirst(worker) ==
    LET own == searchCustomFieldGroup(worker.CustomFieldGroup)
        wa  == FirstMarkedAssignment(worker.WorkAssignments)
    IN IF wa > 0
       THEN searchCustomFieldGroup(worker.WorkAssignments[wa].CustomFieldGroup).val
       ELSE IF own.found THEN own.val
       ELSE sEmpty

\* getOverdriveSyncValue(worker ADPWorker) string
getOverdriveSyncValue(worker) ==
    LET own == searchCustomFieldGroup(worker.CustomFieldGroup)
        wa  == FirstMarkedAssignment(worker.WorkAssignments)
    IN IF own.found THEN own.val
       ELSE IF wa > 0
       THEN searchCustomFieldGroup(worker.WorkAssignments[wa].CustomFieldGroup).val
       ELSE sEmpty

\* ------------------------------------------------------- program constants
\* pageSize := 100 in GetWorkers
pageSize == 100
\* the 5 minutes of ensureValidToken's ExpiresAt.Add(-5*time.Minute)
SafetyMargin == 5

\* ------------------------------------------------------------------ bounds
\* the clock runs from 0 to MaxTime minutes
MaxTime == 3
\* the upstream holds at most MaxFullPages full pages of workers ...
MaxFullPages == 1
\* ... followed by at most MaxTail further workers
MaxTail == 1
\* workers handed to the filter loop of GetDriverHomeAddresses
MaxWorkers == 2

\* expires_in of a token response, in minutes (0: the field is absent)
ExpiresInChoices == {0, 6, 8}

\* ------------------------------------------------------------------- state
VARIABLES
    \* adp.Client and the upstream it talks to
    oauth2Token,          \* c.oauth2Token: NoToken or [AccessToken, ExpiresAt]
    now,                  \* time.Now(), minutes
    tokenRequests,        \* POSTs to the token endpoint so far
    hrWorkers,            \* the worker collection held by the HR upstream
    endless,              \* the upstream answers every request with a full page
    tokenChecks,          \* calls of ensureValidToken so far
    lastCheck,            \* the latest of them: [at, before, after, err]
    pageRequests,         \* GETs of /hr/v2/workers so far: <<[top, skip, token]>>
    \* GetWorkers
    skip, allWorkers,
    \* GetDriverHomeAddresses
    apc,                  \* "ensure", "request", "filter", "returned", "failed"
    workers, driverHomeAddresses, skippedInactive, skippedOverdrive,
    emitted,              \* for each appended driver, the index of its worker
    adpErr,               \* the error returned, Null if none
    \* func main, and the fleet system it talks to
    pc,                   \* "start", "config", "newAdp", "newMikeAlbert", "fetch",
                          \* "loop", "records", "exit0", "exit1"
    run,                  \* which run of the scheduled command this is
    config,               \* the -config flag, the file it names, the key pair
    hrDrivers,            \* what GetDriverHomeAddresses returns when it succeeds
    drivers, di,          \* `for _, d := range drivers`
    maDrivers, ri,        \* `for _, maDriver := range maDrivers`
    fleet,                \* the fleet system's driver records, by driverId
    findCalls,            \* FindDrivers calls of this run; records: -1 on error
    updateCalls,          \* UpdateDriver calls of this run
    logged,               \* log.Printf("EmployeeNumber %s: %+v", ...) lines
    report,               \* the run report's counters; main declares none
    prevClean             \* the run before this one logged no error

adpVars == <<oauth2Token, now, tokenRequests, hrWorkers, endless, tokenChecks, lastCheck,
             pageRequests, skip,
             allWorkers, apc, workers, driverHomeAddresses, skippedInactive,
             skippedOverdrive, emitted, adpErr>>

mainVars == <<pc, run, config, hrDrivers, drivers, di, maDrivers, ri, fleet, findCalls,
              updateCalls, logged, report, prevClean>>

vars == <<adpVars, mainVars>>

\* ----------------------------------------------------------- worker records
NameCode(code, short) == [CodeValue |-> code, ShortName |-> short]
StringField(nc, v) == [NameCode |-> nc, StringValue |-> v]
CodeField(nc, v) == [NameCode |-> nc, CodeValue |-> v]
FieldGroup(sf, cf) == [StringFields |-> sf, CodeFields |-> cf]
Assignment(payroll, status, cfg) ==
    [PayrollFileNumber |-> payroll,
     AssignmentStatus |-> [StatusCode |-> [CodeValue |-> status]],
     CustomFieldGroup |-> cfg]
Worker(person, was, cfg) ==
    [Person |-> person, WorkAssignments |-> was, CustomFieldGroup |-> cfg]
Person(given, family, line1, line2, city, state, zip) ==
    [LegalName |-> [GivenName |-> given, FamilyName1 |-> family],
     LegalAddress |-> [LineOne |-> line1, LineTwo |-> line2, CityName |-> city,
                       CountrySubdivisionLevel1 |-> [CodeValue |-> state],
                       PostalCode |-> zip]]

\* ---------------------------------------------------------------- inputs
ncSync   == NameCode(sOVERDRIVE_SYNC, sEmpty)
ncShort  == NameCode(sEmpty, <<" ","o","v","e","r","d","r","i","v","e","_","s","y","n","c"," ">>)
ncInside == NameCode(<<"X","O","v","e","r","D","r","i","v","e","2">>, sEmpty)
ncDept   == NameCode(<<"D","E","P","T">>, <<"D","e","p","t">>)

vNo    == sNo
vNO    == <<"N","O">>
vPadNo == <<" ","n","O"," ">>
vYes   == <<"Y","e","s">>
vN     == <<"N">>

NoGroup == FieldGroup(<<>>, <<>>)

\* custom field groups a worker may carry
WorkerGroups ==
    { NoGroup,
      FieldGroup(<<StringField(ncSync, vNo)>>, <<>>),
      FieldGroup(<<StringField(ncShort, vPadNo)>>, <<>>),
      FieldGroup(<<StringField(ncInside, vYes)>>, <<>>),
      FieldGroup(<<StringField(ncSync, sEmpty)>>, <<>>),
      FieldGroup(<<StringField(ncSync, vN)>>, <<>>),
      FieldGroup(<<>>, <<CodeField(ncShort, vNO)>>),
      FieldGroup(<<StringField(ncDept, vNo)>>, <<>>),
      FieldGroup(<<StringField(ncSync, vYes)>>, <<CodeField(ncSync, vNo)>>),
      FieldGroup(<<StringField(ncDept, vNo), StringField(ncSync, vYes),
                   StringField(ncSync, vNo)>>, <<>>) }

\* custom field groups a work assignment may carry
AssignmentGroups ==
    { NoGroup,
      FieldGroup(<<StringField(ncSync, vNO)>>, <<>>),
      FieldGroup(<<StringField(ncSync, vYes)>>, <<>>),
      FieldGroup(<<>>, <<CodeField(ncInside, vNo)>>) }

emp0045 == <<"0","0","4","5">>
emp7    == <<"7">>
emp45   == <<"4","5">>

StatusCodes == {<<"A">>, <<"a">>, <<"T">>, sEmpty}

FirstAssignments ==
    { Assignment(p, st, g) : p \in {sEmpty, emp0045}, st \in StatusCodes,
                             g \in AssignmentGroups }
LaterAssignments ==
    { Assignment(emp7, sA, NoGroup),
      Assignment(emp7, <<"T">>, FieldGroup(<<StringField(ncSync, vNO)>>, <<>>)),
      Assignment(emp7, sA, FieldGroup(<<StringField(ncSync, vYes)>>, <<>>)),
      Assignment(emp7, <<"T">>, FieldGroup(<<>>, <<CodeField(ncInside, vNo)>>)) }

AssignmentLists ==
    {<<>>} \cup { <<a>> : a \in FirstAssignments }
           \cup { <<a, b>> : a \in FirstAssignments, b \in LaterAssignments }

person1 == Person(<<"A","l">>, <<"K","o">>, <<"1"," ","M","a","i","n">>, sEmpty,
                  <<"C","i","n">>, <<"O","H">>,
                  <<"4","5","2","0","2","-","1","2","3","4">>)
personF == Person(<<"F">>, <<"F">>, <<"3">>, sEmpty, <<"X">>, <<"O","H">>, <<"4","5">>)
person2 == Person(<<"B","o">>, <<"L","i">>, <<"2"," ","E","l","m">>, <<"A","p","t">>,
                  <<"D","a","y">>, <<"O","H">>, <<"4","5","4","0","1">>)

\* an active worker with nothing special about it
Filler == Worker(personF, <<Assignment(emp45, sA, NoGroup)>>, NoGroup)

\* the workers that surround the one of any shape in a filter input
Companions ==
    { Filler, Worker(person1, <<Assignment(emp7, <<"T">>, NoGroup)>>, NoGroup) }

SeqsUpTo(S, n) == UNION { [1..k -> S] : k \in 0..n }

\* lists of workers for the filter loop: one worker of any shape (at place i,
\* when the list is that long) among its companions
FilterInput(s, i, was, g) ==
    IF i \in DOMAIN s THEN [s EXCEPT ![i] = Worker(person1, was, g)] ELSE s

\* a worker without work assignments, name or address
Blank == Worker(Person(sEmpty, sEmpty, sEmpty, sEmpty, sEmpty, sEmpty, sEmpty),
                <<>>, NoGroup)

\* the workers after the full pages
Tails == { Filler, Worker(person1, <<Assignment(emp7, <<"T">>, NoGroup)>>, NoGroup) }

\* the upstream's collection: full pages of Blank, then a short tail
Upstreams ==
    { [i \in 1..(k * pageSize) |-> Blank] \o tail :
        k \in 0..MaxFullPages, tail \in SeqsUpTo(Tails, MaxTail) }

\* ------------------------------------------------------------ configuration
\* the -config flag, whether the file reads and parses, its fields, and whether
\* tls.LoadX509KeyPair accepts the two files it names
GoodConfig ==
    [Flag |-> "config.yaml",
     Readable |-> TRUE,
     Adp |-> [ClientId |-> "id", ClientSecret |-> "secret", BaseURL |-> "url",
              CertFile |-> "cert.pem", KeyFile |-> "key.pem"],
     MikeAlbert |-> [ClientId |-> "id", ClientSecret |-> "secret",
                     Endpoint |-> "url"],
     KeyPairLoads |-> TRUE]

AdpFields == {"ClientId", "ClientSecret", "BaseURL", "CertFile", "KeyFile"}
MikeAlbertFields == {"ClientId", "ClientSecret", "Endpoint"}

\* the good configuration, and every way of spoiling one thing in it
Configs ==
    {GoodConfig}
    \cup {[GoodConfig EXCEPT !.Flag = ""]}
    \cup {[GoodConfig EXCEPT !.Readable = FALSE]}
    \cup {[GoodConfig EXCEPT !.KeyPairLoads = FALSE]}
    \cup {[GoodConfig EXCEPT !.Adp[f] = ""] : f \in AdpFields}
    \cup {[GoodConfig EXCEPT !.MikeAlbert[f] = ""] : f \in MikeAlbertFields}

\* faulty variant: the base URL is not looked at
adpValidate_IgnoresBaseURL(a) ==
    IF a.ClientId = "" THEN "ADP ClientId is required"
    ELSE IF a.ClientSecret = "" THEN "ADP ClientSecret is required"
    ELSE IF a.CertFile = "" THEN "ADP CertFile is required"
    ELSE IF a.KeyFile = "" THEN "ADP KeyFile is required"
    ELSE Null

\* func (a *adp) validate() error
adpValidate(a) ==
    IF a.ClientId = "" THEN "ADP ClientId is required"
    ELSE IF a.ClientSecret = "" THEN "ADP ClientSecret is required"
    ELSE IF a.BaseURL = "" THEN "ADP BaseURL is required"
    ELSE IF a.CertFile = "" THEN "ADP CertFile is required"
    ELSE IF a.KeyFile = "" THEN "ADP KeyFile is required"
    ELSE Null

\* func (m *mikealbert) validate() error
mikealbertValidate(m) ==
    IF m.ClientId = "" THEN "required configuration missing Mike Albert ClientId"
    ELSE IF m.ClientSecret = ""
         THEN "required configuration missing Mike Albert ClientSecret"
    ELSE IF m.Endpoint = "" THEN "required configuration missing Mike Albert Endpoint"
    ELSE Null

\* func (c *configuration) validate() error
validate(c) ==
    IF adpValidate(c.Adp) # Null THEN adpValidate(c.Adp)
    ELSE mikealbertValidate(c.MikeAlbert)

\* main is inside its call of GetDriverHomeAddresses (first run, nothing done yet)
MainInCall ==
    /\ pc = "fetch"
    /\ run = 1
    /\ config = GoodConfig
    /\ hrDrivers = <<>>
    /\ drivers = <<>>
    /\ di = 1
    /\ maDrivers = <<>>
    /\ ri = 1
    /\ fleet = <<>>
    /\ findCalls = <<>>
    /\ updateCalls = <<>>
    /\ logged = <<>>
    /\ report = [updated |-> 0, unchanged |-> 0, notFoundInSink |-> 0,
                 skipped |-> 0, errors |-> 0]
    /\ prevClean = FALSE

\* ------------------------------------------ GetDriverHomeAddresses, the loop
\* faulty variant: first and last name change places
MakeDriver_NamesSwapped(worker) ==
    [EmployeeNumber |-> worker.WorkAssignments[1].PayrollFileNumber,
     LastName  |-> worker.Person.LegalName.GivenName,
     FirstName |-> worker.Person.LegalName.FamilyName1,
     Address1  |-> worker.Person.LegalAddress.LineOne,
     Address2  |-> worker.Person.LegalAddress.LineTwo,
     City      |-> worker.Person.LegalAddress.CityName,
     State     |-> worker.Person.LegalAddress.CountrySubdivisionLevel1.CodeValue,
     ZIPCode   |-> worker.Person.LegalAddress.PostalCode]

\* DriverHomeAddress{...} built from person.legalName and person.legalAddress
MakeDriver(worker) ==
    [EmployeeNumber |-> worker.WorkAssignments[1].PayrollFileNumber,
     LastName  |-> worker.Person.LegalName.FamilyName1,
     FirstName |-> worker.Person.LegalName.GivenName,
     Address1  |-> worker.Person.LegalAddress.LineOne,
     Address2  |-> worker.Person.LegalAddress.LineTwo,
     City      |-> worker.Person.LegalAddress.CityName,
     State     |-> worker.Person.LegalAddress.CountrySubdivisionLevel1.CodeValue,
     ZIPCode   |-> worker.Person.LegalAddress.PostalCode]

\* faulty variant: only the terminated code "T" counts as not active
IsActive_NotTerminated(assignment) ==
    ToUpper(assignment.AssignmentStatus.StatusCode.CodeValue) # <<"T">>

\* statusCode := strings.ToUpper(...CodeValue); statusCode != "A" is "not active"
IsActive(assignment) ==
    ToUpper(assignment.AssignmentStatus.StatusCode.CodeValue) = sA

\* faulty variant: the empty payroll file number is not checked
HasEmployeeNumber_Unchecked(assignment) == TRUE

\* employeeNumber := primaryAssignment.PayrollFileNumber; employeeNumber == "" drops
HasEmployeeNumber(assignment) == assignment.PayrollFileNumber # sEmpty

\* strings.EqualFold(overdriveSyncValue, "No")
IsOptedOut(worker) == EqualFold(getOverdriveSyncValue(worker), sNo)

\* what one pass of the loop body does with a worker
WorkerOutcome(worker) ==
    IF Len(worker.WorkAssignments) = 0 THEN "noAssignments"
    ELSE IF ~IsActive(worker.WorkAssignments[1]) THEN "inactive"
    ELSE IF ~HasEmployeeNumber(worker.WorkAssignments[1]) THEN "noEmployeeNumber"
    ELSE IF IsOptedOut(worker) THEN "overdrive"
    ELSE "eligible"

\* the passes of `for _, worker := range workers` that end as `outcome`, in order
PassesEnding(ws, outcome) ==
    SelectSeq([i \in 1..Len(ws) |-> i], LAMBDA i : WorkerOutcome(ws[i]) = outcome)

\* GetDriverHomeAddresses after GetWorkers has returned: the loop over the
\* workers, the log line with the filter results, return driverHomeAddresses, nil
FilterWorkers ==
    /\ apc = "filter"
    /\ emitted' = PassesEnding(workers, "eligible")
    /\ driverHomeAddresses' =
          [j \in 1..Len(emitted') |-> MakeDriver(workers[emitted'[j]])]
    /\ skippedInactive' = Len(PassesEnding(workers, "inactive"))
    /\ skippedOverdrive' = Len(PassesEnding(workers, "overdrive"))
    /\ apc' = "returned"
    /\ UNCHANGED <<oauth2Token, now, tokenRequests, hrWorkers, endless,
                   tokenChecks, lastCheck, pageRequests, skip, allWorkers, workers, adpErr,
                   mainVars>>

\* GetWorkers has returned ws in one page; the loop is about to start
InitFilter ==
    /\ \E s \in SeqsUpTo(Companions, MaxWorkers), i \in 0..MaxWorkers,
          was \in AssignmentLists, g \in WorkerGroups :
            workers = FilterInput(s, i, was, g)
    /\ allWorkers = workers
    /\ hrWorkers = workers
    /\ endless = FALSE
    /\ oauth2Token = [AccessToken |-> 1, ExpiresIn |-> 8, ExpiresAt |-> 8]
    /\ now = 0
    /\ tokenRequests = 1
    /\ tokenChecks = 1
    /\ lastCheck = [at |-> 0, before |-> NoToken, after |-> oauth2Token,
                    err |-> FALSE]
    /\ pageRequests = <<[top |-> pageSize, skip |-> 0, token |-> 1, ok |-> TRUE,
                         got |-> Len(workers)]>>
    /\ skip = 0
    /\ apc = "filter"
    /\ driverHomeAddresses = <<>>
    /\ skippedInactive = 0
    /\ skippedOverdrive = 0
    /\ emitted = <<>>
    /\ adpErr = Null
    /\ MainInCall

NextFilter == FilterWorkers

\* the filter loop of GetDriverHomeAddresses over every FilterInput
SpecFilter == InitFilter /\ [][NextFilter]_vars


\* ------------------------------------------------- token cache (package adp)
\* faulty variant: the margin is reached at ExpiresAt - 5 min, not after it
TokenExpired_AtMargin(tok, t) ==
    tok = NoToken \/ t >= tok.ExpiresAt - SafetyMargin

\* c.oauth2Token == nil || time.Now().After(c.oauth2Token.ExpiresAt.Add(-5*time.Minute))
TokenExpired(tok, t) ==
    tok = NoToken \/ t > tok.ExpiresAt - SafetyMargin

\* faulty variant: the lifetime is taken for the expiry time
NewToken_NoClock(accessToken, expiresIn, t) ==
    [AccessToken |-> accessToken, ExpiresIn |-> expiresIn, ExpiresAt |-> expiresIn]

\* the decoded OAuth2Token with token.ExpiresAt = time.Now().Add(ExpiresIn)
NewToken(accessToken, expiresIn, t) ==
    [AccessToken |-> accessToken, ExpiresIn |-> expiresIn,
     ExpiresAt |-> t + expiresIn]

\* no call of ensureValidToken yet
NoCheck == [at |-> 0, before |-> NoToken, after |-> NoToken, err |-> FALSE]

\* one call of ensureValidToken: when, the cached token before and after it,
\* and whether it returned an error
TokenCheck(after, failed) ==
    [at |-> now, before |-> oauth2Token, after |-> after, err |-> failed]

\* GetWorkers never leaves its loop against an upstream without end; the
\* requests that are followed
PageCap == MaxFullPages + 1

\* faulty variant: the pages fetched so far are returned with the error
ErrorResult_Partial(all) == all

\* `return nil, fmt.Errorf(...)`: the workers returned next to an error
ErrorResult(all) == <<>>

\* getAccessToken: the POST is answered 200 with a token that decodes
getAccessTokenOk ==
    /\ tokenRequests' = tokenRequests + 1
    /\ \E expiresIn \in ExpiresInChoices :
          oauth2Token' = NewToken(tokenRequests + 1, expiresIn, now)
    /\ tokenChecks' = tokenChecks + 1
    /\ lastCheck' = TokenCheck(oauth2Token', FALSE)
    /\ apc' = "request"
    /\ UNCHANGED <<now, hrWorkers, endless, pageRequests, skip, allWorkers,
                   workers, driverHomeAddresses, skippedInactive,
                   skippedOverdrive, emitted, adpErr, mainVars>>

\* getAccessToken: transport error, status other than 200, or a body that does
\* not decode; GetWorkers and GetDriverHomeAddresses return nil and the error
getAccessTokenFails ==
    /\ tokenRequests' = tokenRequests + 1
    /\ tokenChecks' = tokenChecks + 1
    /\ lastCheck' = TokenCheck(oauth2Token, TRUE)
    /\ adpErr' = "failed to get valid token"
    /\ apc' = "failed"
    /\ workers' = ErrorResult(allWorkers)
    /\ UNCHANGED <<oauth2Token, now, hrWorkers, endless, pageRequests, skip,
                   allWorkers, driverHomeAddresses, skippedInactive,
                   skippedOverdrive, emitted, mainVars>>

\* ensureValidToken, called at the top of every pass of GetWorkers' loop
ensureValidToken ==
    /\ apc = "ensure"
    /\ Len(pageRequests) < PageCap
    /\ IF TokenExpired(oauth2Token, now)
       THEN getAccessTokenOk \/ getAccessTokenFails
       ELSE /\ apc' = "request"
            /\ tokenChecks' = tokenChecks + 1
            /\ lastCheck' = TokenCheck(oauth2Token, FALSE)
            /\ UNCHANGED <<oauth2Token, now, tokenRequests, hrWorkers, endless,
                           pageRequests, skip, allWorkers, workers,
                           driverHomeAddresses, skippedInactive,
                           skippedOverdrive, emitted, adpErr, mainVars>>

\* ------------------------------------------------------- GetWorkers, one page
\* what the upstream answers: one that honours $top and $skip over its
\* collection, or one that has a full page for every request
PageOf(all, endl, top, skp) ==
    IF endl THEN [i \in 1..top |-> Blank]
    ELSE SubSeq(all, skp + 1, IF skp + top < Len(all) THEN skp + top ELSE Len(all))

\* faulty variant: only the empty page ends the loop
IsLastPage_OnlyEmpty(n) == n = 0

\* len(response.Workers) == 0 -> break; len(response.Workers) < pageSize -> break
IsLastPage(n) == n = 0 \/ n < pageSize

\* faulty variant: the next page starts one worker further
NextSkip_ByOne(skp) == skp + 1

\* skip += pageSize
NextSkip(skp) == skp + pageSize

\* faulty variant: the token is checked before the first page only
AfterFullPage_NoCheck == "request"

\* after a full page the `for` loop starts over, with ensureValidToken
AfterFullPage == "ensure"

\* the GET with $top, $skip and the Bearer token, and what came back
PageRequest(ok, page) ==
    [top |-> pageSize, skip |-> skip, token |-> oauth2Token.AccessToken,
     ok |-> ok, got |-> Len(page)]

\* the GET is answered 200 with a page that decodes
PageRequestOk ==
    /\ apc = "request"
    /\ LET page == PageOf(hrWorkers, endless, pageSize, skip)
       IN /\ pageRequests' = Append(pageRequests, PageRequest(TRUE, page))
          /\ allWorkers' = IF Len(page) = 0 THEN allWorkers ELSE allWorkers \o page
          /\ IF IsLastPage(Len(page))
             THEN /\ workers' = allWorkers'
                  /\ apc' = "filter"
                  /\ skip' = skip
             ELSE /\ skip' = NextSkip(skip)
                  /\ apc' = AfterFullPage
                  /\ workers' = workers
    /\ UNCHANGED <<oauth2Token, now, tokenRequests, hrWorkers, endless,
                   tokenChecks, lastCheck, driverHomeAddresses, skippedInactive,
                   skippedOverdrive, emitted, adpErr, mainVars>>

\* the GET fails: transport error, unreadable body, status other than 200, or a
\* body that does not decode; nil and the error are returned
PageRequestFails ==
    /\ apc = "request"
    /\ pageRequests' = Append(pageRequests, PageRequest(FALSE, <<>>))
    /\ adpErr' = "failed to get workers"
    /\ apc' = "failed"
    /\ workers' = ErrorResult(allWorkers)
    /\ UNCHANGED <<oauth2Token, now, tokenRequests, hrWorkers, endless,
                   tokenChecks, lastCheck, skip, allWorkers, driverHomeAddresses,
                   skippedInactive, skippedOverdrive, emitted, mainVars>>

\* a minute passes while GetWorkers is talking to the upstream
Tick ==
    /\ apc \in {"ensure", "request"}
    /\ now < MaxTime
    /\ now' = now + 1
    /\ UNCHANGED <<oauth2Token, tokenRequests, hrWorkers, endless, tokenChecks, lastCheck,
                   pageRequests, skip, allWorkers, apc, workers,
                   driverHomeAddresses, skippedInactive, skippedOverdrive,
                   emitted, adpErr, mainVars>>

\* a fresh Client (NewClient leaves oauth2Token nil) entering
\* GetDriverHomeAddresses
InitAdp ==
    /\ \/ endless = FALSE /\ hrWorkers \in Upstreams
       \/ endless = TRUE /\ hrWorkers = <<>>
    /\ oauth2Token = NoToken
    /\ now = 0
    /\ tokenRequests = 0
    /\ tokenChecks = 0
    /\ lastCheck = NoCheck
    /\ pageRequests = <<>>
    /\ skip = 0
    /\ allWorkers = <<>>
    /\ apc = "ensure"
    /\ workers = <<>>
    /\ driverHomeAddresses = <<>>
    /\ skippedInactive = 0
    /\ skippedOverdrive = 0
    /\ emitted = <<>>
    /\ adpErr = Null
    /\ MainInCall

NextAdp ==
    \/ ensureValidToken
    \/ PageRequestOk
    \/ PageRequestFails
    \/ Tick
    \/ FilterWorkers

\* one call of Client.GetDriverHomeAddresses on a fresh client
SpecAdp == InitAdp /\ [][NextAdp]_vars

\* the same call when every request is answered in the end (the http.Client
\* has a timeout) and the calling goroutine keeps running
SpecAdpFair == SpecAdp /\ WF_vars(NextAdp)


\* ------------------------------------------------------------------ main
\* runs of the scheduled command that are followed
MaxRuns == 2
\* drivers returned by GetDriverHomeAddresses
MaxDrivers == 2

\* the drivers GetDriverHomeAddresses builds from three eligible workers
driver45   == MakeDriver(Worker(person1, <<Assignment(emp45, sA, NoGroup)>>, NoGroup))
driver0045 == MakeDriver(Worker(person1, <<Assignment(emp0045, sA, NoGroup)>>, NoGroup))
driver7    == MakeDriver(Worker(person2, <<Assignment(emp7, sA, NoGroup)>>, NoGroup))

DriverLists == SeqsUpTo({driver45, driver0045, driver7}, MaxDrivers)

\* a driver record of the fleet system; its driverId is its place in `fleet`
FleetRecord(emp, a1, a2, post) ==
    [EmployeeNumber |-> emp, Address1 |-> a1, Address2 |-> a2, PostCode |-> post]

zip45202 == <<"4","5","2","0","2">>

\* the fleet system before the first run
Fleets ==
    { <<>>,
      <<FleetRecord(emp45, <<"1"," ","M","a","i","n">>, sEmpty, zip45202)>>,
      <<FleetRecord(emp45, <<"1"," ","M","A","I","N"," ">>, sEmpty, zip45202),
        FleetRecord(emp45, <<"9"," ","O","a","k">>, sEmpty, zip45202)>>,
      <<FleetRecord(emp7, <<"2"," ","E","l","m">>, <<"A","p","t">>,
                    <<"4","5","4","0","1">>),
        FleetRecord(emp45, <<"1"," ","M","a","i","n">>, sEmpty,
                    <<"4","5","2","0","3">>)>> }

\* mac.FindDrivers answered without error: the records kept under the number
FindResult(fl, employeeNumber) ==
    LET ids == SelectSeq([i \in 1..Len(fl) |-> i],
                         LAMBDA i : fl[i].EmployeeNumber = employeeNumber)
    IN [j \in 1..Len(ids) |->
            [DriverId |-> ids[j],
             Address |-> [Address1 |-> fl[ids[j]].Address1,
                          Address2 |-> fl[ids[j]].Address2,
                          PostCode |-> fl[ids[j]].PostCode]]]

\* mac.UpdateDriver answered without error: the record holds the new address
UpdateResult(fl, driverId, address1, address2, zipCode) ==
    [fl EXCEPT ![driverId] = [@ EXCEPT !.Address1 = address1,
                                      !.Address2 = address2,
                                      !.PostCode = zipCode]]

\* the argument of mac.FindDrivers(d.EmployeeNumber)
LookupKey(d) == d.EmployeeNumber

\* the errors the fleet client can return from UpdateDriver
UpdateErrors == {"multiple vehicles allocated", "update failed"}

\* drivers, err := ac.GetDriverHomeAddresses() returns the drivers
FetchOk ==
    /\ pc = "fetch"
    /\ drivers' = hrDrivers
    /\ di' = 1
    /\ pc' = "loop"
    /\ UNCHANGED <<adpVars, run, config, hrDrivers, maDrivers, ri, fleet, findCalls,
                   updateCalls, logged, report, prevClean>>

\* drivers, err := ac.GetDriverHomeAddresses() returns an error: log, os.Exit(1)
FetchFails ==
    /\ pc = "fetch"
    /\ pc' = "exit1"
    /\ UNCHANGED <<adpVars, run, config, hrDrivers, drivers, di, maDrivers, ri, fleet,
                   findCalls, updateCalls, logged, report, prevClean>>

\* maDrivers, err := mac.FindDrivers(d.EmployeeNumber) returns records
FindDriversOk ==
    /\ pc = "loop"
    /\ di <= Len(drivers)
    /\ maDrivers' = FindResult(fleet, LookupKey(drivers[di]))
    /\ findCalls' = Append(findCalls, [arg |-> LookupKey(drivers[di]), driver |-> di,
                                       records |-> Len(maDrivers')])
    /\ ri' = 1
    /\ IF Len(maDrivers') = 0
       THEN pc' = "loop" /\ di' = di + 1
       ELSE pc' = "records" /\ di' = di
    /\ UNCHANGED <<adpVars, run, config, hrDrivers, drivers, fleet, updateCalls, logged,
                   report, prevClean>>

\* mac.FindDrivers returns an error: log it, continue with the next driver
FindDriversFails ==
    /\ pc = "loop"
    /\ di <= Len(drivers)
    /\ findCalls' = Append(findCalls, [arg |-> LookupKey(drivers[di]), driver |-> di,
                                       records |-> -1])
    /\ logged' = Append(logged, [EmployeeNumber |-> drivers[di].EmployeeNumber,
                                 err |-> "find failed"])
    /\ di' = di + 1
    /\ UNCHANGED <<adpVars, pc, run, config, hrDrivers, drivers, maDrivers, ri, fleet,
                   updateCalls, report, prevClean>>

\* the call mac.UpdateDriver(*maDriver.DriverId, d.Address1, d.Address2, d.ZIPCode)
UpdateCall ==
    [driverId |-> maDrivers[ri].DriverId,
     address1 |-> drivers[di].Address1,
     address2 |-> drivers[di].Address2,
     zipCode  |-> drivers[di].ZIPCode,
     driver   |-> di,
     record   |-> maDrivers[ri]]

\* the inner loop moves to its next record, or the outer loop to its next driver
NextRecord ==
    /\ IF ri < Len(maDrivers)
       THEN ri' = ri + 1 /\ pc' = "records" /\ di' = di
       ELSE ri' = 1 /\ pc' = "loop" /\ di' = di + 1

\* mac.UpdateDriver returns without error
UpdateDriverOk ==
    /\ pc = "records"
    /\ updateCalls' = Append(updateCalls, UpdateCall)
    /\ fleet' = UpdateResult(fleet, UpdateCall.driverId, UpdateCall.address1,
                             UpdateCall.address2, UpdateCall.zipCode)
    /\ NextRecord
    /\ UNCHANGED <<adpVars, run, config, hrDrivers, drivers, maDrivers, findCalls, logged,
                   report, prevClean>>

\* mac.UpdateDriver returns an error: log it, continue with the next record
UpdateDriverFails ==
    /\ pc = "records"
    /\ updateCalls' = Append(updateCalls, UpdateCall)
    /\ \E e \in UpdateErrors :
          logged' = Append(logged, [EmployeeNumber |-> drivers[di].EmployeeNumber,
                                    err |-> e])
    /\ NextRecord
    /\ UNCHANGED <<adpVars, run, config, hrDrivers, drivers, maDrivers, fleet, findCalls,
                   report, prevClean>>

\* the outer loop is over: main returns
MainReturns ==
    /\ pc = "loop"
    /\ di > Len(drivers)
    /\ pc' = "exit0"
    /\ UNCHANGED <<adpVars, run, config, hrDrivers, drivers, di, maDrivers, ri, fleet,
                   findCalls, updateCalls, logged, report, prevClean>>

\* the scheduler starts the command again: a new process, the same HR data, the
\* fleet system as the run before left it
RunAgain ==
    /\ pc = "exit0"
    /\ run < MaxRuns
    /\ run' = run + 1
    /\ prevClean' = (logged = <<>>)
    /\ pc' = "fetch"
    /\ drivers' = <<>>
    /\ di' = 1
    /\ maDrivers' = <<>>
    /\ ri' = 1
    /\ findCalls' = <<>>
    /\ updateCalls' = <<>>
    /\ logged' = <<>>
    /\ report' = [updated |-> 0, unchanged |-> 0, notFoundInSink |-> 0,
                  skipped |-> 0, errors |-> 0]
    /\ UNCHANGED <<adpVars, config, hrDrivers, fleet>>

\* the adp client as NewClient built it; GetDriverHomeAddresses is one step here
AdpFresh ==
    /\ hrWorkers = <<>>
    /\ endless = FALSE
    /\ oauth2Token = NoToken
    /\ now = 0
    /\ tokenRequests = 0
    /\ tokenChecks = 0
    /\ lastCheck = NoCheck
    /\ pageRequests = <<>>
    /\ skip = 0
    /\ allWorkers = <<>>
    /\ apc = "ensure"
    /\ workers = <<>>
    /\ driverHomeAddresses = <<>>
    /\ skippedInactive = 0
    /\ skippedOverdrive = 0
    /\ emitted = <<>>
    /\ adpErr = Null

\* main, with both clients created, about to fetch the drivers
Init ==
    /\ AdpFresh
    /\ pc = "fetch"
    /\ run = 1
    /\ config = GoodConfig
    /\ hrDrivers \in DriverLists
    /\ drivers = <<>>
    /\ di = 1
    /\ maDrivers = <<>>
    /\ ri = 1
    /\ fleet \in Fleets
    /\ findCalls = <<>>
    /\ updateCalls = <<>>
    /\ logged = <<>>
    /\ report = [updated |-> 0, unchanged |-> 0, notFoundInSink |-> 0,
                 skipped |-> 0, errors |-> 0]
    /\ prevClean = FALSE

Next ==
    \/ FetchOk
    \/ FetchFails
    \/ FindDriversOk
    \/ FindDriversFails
    \/ UpdateDriverOk
    \/ UpdateDriverFails
    \/ MainReturns
    \/ RunAgain

\* runs of the command, one after the other
Spec == Init /\ [][Next]_vars


\* ------------------------------------------------- main, from its first line
\* the workers after the full pages
RunTail ==
    { Worker(person1, <<Assignment(emp45, sA, NoGroup)>>, NoGroup),
      Worker(person2, <<Assignment(emp7, sA, NoGroup)>>, NoGroup) }

RunUpstreams ==
    { [i \in 1..(k * pageSize) |-> Blank] \o tail :
        k \in 0..MaxFullPages, tail \in SeqsUpTo(RunTail, MaxTail) }

\* the fleet system before the run
RunFleets == { f \in Fleets : Len(f) = 2 }

\* flag.Parse(); no -config flag: usage, os.Exit(1)
ParseFlags ==
    /\ pc = "start"
    /\ pc' = IF config.Flag = "" THEN "exit1" ELSE "config"
    /\ UNCHANGED <<adpVars, run, config, hrDrivers, drivers, di, maDrivers, ri,
                   fleet, findCalls, updateCalls, logged, report, prevClean>>

\* config.FromFile(configFile): read, unmarshal, validate
FromFile ==
    /\ pc = "config"
    /\ pc' = IF ~config.Readable \/ validate(config) # Null
             THEN "exit1" ELSE "newAdp"
    /\ UNCHANGED <<adpVars, run, config, hrDrivers, drivers, di, maDrivers, ri,
                   fleet, findCalls, updateCalls, logged, report, prevClean>>

\* adp.NewClient: tls.LoadX509KeyPair(certFile, keyFile), then the Client with
\* no token
NewClient ==
    /\ pc = "newAdp"
    /\ pc' = IF config.KeyPairLoads THEN "newMikeAlbert" ELSE "exit1"
    /\ UNCHANGED <<adpVars, run, config, hrDrivers, drivers, di, maDrivers, ri,
                   fleet, findCalls, updateCalls, logged, report, prevClean>>

\* mikealbert.NewClient(clientId, clientSecret, endpoint)
NewMikeAlbertClient ==
    /\ pc = "newMikeAlbert"
    /\ pc' = IF mikealbertValidate(config.MikeAlbert) # Null
             THEN "exit1" ELSE "fetch"
    /\ UNCHANGED <<adpVars, run, config, hrDrivers, drivers, di, maDrivers, ri,
                   fleet, findCalls, updateCalls, logged, report, prevClean>>

\* the steps of ac.GetDriverHomeAddresses() while main waits for it; the clock
\* is not followed here, a token with expires_in = 0 is the one that runs out
GetDriverHomeAddresses ==
    /\ pc = "fetch"
    /\ \/ ensureValidToken
       \/ PageRequestOk
       \/ PageRequestFails
       \/ FilterWorkers

\* drivers, err := ac.GetDriverHomeAddresses() with err == nil
GetDriversReturns ==
    /\ pc = "fetch"
    /\ apc = "returned"
    /\ hrDrivers' = driverHomeAddresses
    /\ drivers' = driverHomeAddresses
    /\ di' = 1
    /\ pc' = "loop"
    /\ UNCHANGED <<adpVars, run, config, maDrivers, ri, fleet, findCalls,
                   updateCalls, logged, report, prevClean>>

\* drivers, err := ac.GetDriverHomeAddresses() with err != nil: log, os.Exit(1)
GetDriversFails ==
    /\ pc = "fetch"
    /\ apc = "failed"
    /\ pc' = "exit1"
    /\ UNCHANGED <<adpVars, run, config, hrDrivers, drivers, di, maDrivers, ri,
                   fleet, findCalls, updateCalls, logged, report, prevClean>>

\* the process at the first line of main
InitRun ==
    /\ config \in Configs
    /\ hrWorkers \in RunUpstreams
    /\ endless = FALSE
    /\ oauth2Token = NoToken
    /\ now = 0
    /\ tokenRequests = 0
    /\ tokenChecks = 0
    /\ lastCheck = NoCheck
    /\ pageRequests = <<>>
    /\ skip = 0
    /\ allWorkers = <<>>
    /\ apc = "ensure"
    /\ workers = <<>>
    /\ driverHomeAddresses = <<>>
    /\ skippedInactive = 0
    /\ skippedOverdrive = 0
    /\ emitted = <<>>
    /\ adpErr = Null
    /\ pc = "start"
    /\ run = 1
    /\ hrDrivers = <<>>
    /\ drivers = <<>>
    /\ di = 1
    /\ maDrivers = <<>>
    /\ ri = 1
    /\ fleet \in RunFleets
    /\ findCalls = <<>>
    /\ updateCalls = <<>>
    /\ logged = <<>>
    /\ report = [updated |-> 0, unchanged |-> 0, notFoundInSink |-> 0,
                 skipped |-> 0, errors |-> 0]
    /\ prevClean = FALSE

NextRun ==
    \/ ParseFlags
    \/ FromFile
    \/ NewClient
    \/ NewMikeAlbertClient
    \/ GetDriverHomeAddresses
    \/ GetDriversReturns
    \/ GetDriversFails
    \/ FindDriversOk
    \/ FindDriversFails
    \/ UpdateDriverOk
    \/ UpdateDriverFails
    \/ MainReturns

\* one run of the command, from flag.Parse() to its exit
SpecRun == InitRun /\ [][NextRun]_vars


\* ================================================================== properties

\* ---- main (Spec)

\* text compared ignoring case and surrounding whitespace
SameText(a, b) == EqualFold(TrimSpace(a), TrimSpace(b))

\* the first 5 characters of a postal code
Prefix5(z) == SubSeq(z, 1, IF Len(z) < 5 THEN Len(z) ELSE 5)

\* the fleet record agrees with the HR driver: nothing to update
SameAddress(d, rec) ==
    /\ SameText(d.Address1, rec.Address.Address1)
    /\ SameText(d.Address2, rec.Address.Address2)
    /\ Prefix5(d.ZIPCode) = Prefix5(rec.Address.PostCode)

RECURSIVE StripLeadingZeros(_)
StripLeadingZeros(s) ==
    IF Len(s) > 0 /\ Head(s) = "0" THEN StripLeadingZeros(Tail(s)) ELSE s

\* C1: no update call is issued for a fleet record whose address1, address2
\* (trimmed, ignoring case) and 5-character postal prefix agree with the HR
\* driver's; the record is counted as unchanged.
C1_NoUpdateWhenSame ==
    \A k \in DOMAIN updateCalls :
        ~SameAddress(drivers[updateCalls[k].driver], updateCalls[k].record)

\* C2: the employee number passed to FindDrivers is the driver's employee number
\* with all leading zeros stripped.
C2_LookupKeyStripped ==
    \A k \in DOMAIN findCalls :
        findCalls[k].arg =
            StripLeadingZeros(drivers[findCalls[k].driver].EmployeeNumber)

\* the log lines of this run whose error is e
LoggedWith(e) == Cardinality({k \in DOMAIN logged : logged[k].err = e})

\* C3: every update attempt is counted once: a success in updated, a rejection
\* for multiple vehicles allocated in skipped (not in errors), any other
\* failure in errors.
C3_UpdateOutcomesCounted ==
    /\ report.skipped = LoggedWith("multiple vehicles allocated")
    /\ report.errors = LoggedWith("update failed") + LoggedWith("find failed")
    /\ report.updated + report.skipped + LoggedWith("update failed")
          = Len(updateCalls)

\* C4: a lookup that succeeds with zero records causes no update call for that
\* driver and adds one to notFoundInSink; the next driver is processed.
C4_NotFoundCounted ==
    /\ report.notFoundInSink =
          Cardinality({k \in DOMAIN findCalls : findCalls[k].records = 0})
    /\ \A k \in DOMAIN findCalls :
          findCalls[k].records = 0 =>
              /\ \A u \in DOMAIN updateCalls :
                    updateCalls[u].driver # findCalls[k].driver
              /\ (pc = "exit0" => Len(findCalls) = Len(drivers))

\* C5: after a run in which every call succeeded, a second run against the same
\* HR data and the fleet state the first run left issues no update call.
C5_SecondRunUpdatesNothing ==
    (run > 1 /\ prevClean) => updateCalls = <<>>

\* ---- GetDriverHomeAddresses (SpecFilter)

Emitted(k) == \E j \in DOMAIN emitted : emitted[j] = k

\* the worker has a first work assignment that the code takes as active and
\* that carries a payroll file number
ActiveWithNumber(w) ==
    /\ Len(w.WorkAssignments) > 0
    /\ ToUpper(w.WorkAssignments[1].AssignmentStatus.StatusCode.CodeValue) = sA
    /\ w.WorkAssignments[1].PayrollFileNumber # sEmpty

\* the name code contains "OVERDRIVE" in any casing
NameHasMarker(nc) ==
    \/ Contains(ToUpper(nc.CodeValue), sOVERDRIVE)
    \/ Contains(ToUpper(nc.ShortName), sOVERDRIVE)

\* the values of the marker fields of one custom field group: string fields in
\* their order, then code fields in their order
GroupMarkerValues(g) ==
    LET sf == SelectSeq(g.StringFields, LAMBDA f : NameHasMarker(f.NameCode))
        cf == SelectSeq(g.CodeFields, LAMBDA f : NameHasMarker(f.NameCode))
    IN [j \in 1..Len(sf) |-> sf[j].StringValue] \o
       [j \in 1..Len(cf) |-> cf[j].CodeValue]

RECURSIVE AssignmentMarkerValues(_)
AssignmentMarkerValues(was) ==
    IF was = <<>> THEN <<>>
    ELSE GroupMarkerValues(Head(was).CustomFieldGroup) \o
         AssignmentMarkerValues(Tail(was))

\* every marker value of a worker: worker level first, then the assignments
MarkerValues(w) ==
    GroupMarkerValues(w.CustomFieldGroup) \o AssignmentMarkerValues(w.WorkAssignments)

IsNo(v) == EqualFold(TrimSpace(v), sNo)

\* C6 as stated: a worker whose first assignment's status code is not "A" is
\* never returned.
C6_NotAExcluded ==
    apc = "returned" =>
        \A k \in DOMAIN workers :
            (/\ Len(workers[k].WorkAssignments) > 0
             /\ workers[k].WorkAssignments[1].AssignmentStatus.StatusCode.CodeValue
                    # sA)
            => ~Emitted(k)

\* C6 amended: a worker whose first assignment's status code is not "A",
\* ignoring letter case, is never returned, whatever its other fields are.
C6_InactiveExcluded ==
    apc = "returned" =>
        \A k \in DOMAIN workers :
            (/\ Len(workers[k].WorkAssignments) > 0
             /\ ToUpper(workers[k].WorkAssignments[1].AssignmentStatus.StatusCode
                            .CodeValue) # sA)
            => ~Emitted(k)

\* a worker that only its status keeps out has been passed over, and another
\* worker has been returned
C6_Witness ==
    /\ apc = "returned"
    /\ emitted # <<>>
    /\ \E k \in DOMAIN workers :
          /\ Len(workers[k].WorkAssignments) > 0
          /\ workers[k].WorkAssignments[1].AssignmentStatus.StatusCode.CodeValue
                = <<"T">>
          /\ workers[k].WorkAssignments[1].PayrollFileNumber # sEmpty
          /\ MarkerValues(workers[k]) = <<>>
          /\ ~Emitted(k)

\* C7 as stated: an active worker with a payroll file number is excluded if and
\* only if some marker field, at worker level or at any assignment level, has a
\* value equal to "No" ignoring case.
C7_AnyMarkerNoExcludes ==
    apc = "returned" =>
        \A k \in DOMAIN workers :
            ActiveWithNumber(workers[k]) =>
                (~Emitted(k) <=>
                    \E j \in DOMAIN MarkerValues(workers[k]) :
                        EqualFold(MarkerValues(workers[k])[j], sNo))

\* C7 amended: an active worker with a payroll file number is excluded if and
\* only if the first marker field found (worker level before the assignments in
\* their order, string fields before code fields) has a value that, with
\* surrounding whitespace trimmed, equals "No" ignoring case.
C7_FirstMarkerDecides ==
    apc = "returned" =>
        \A k \in DOMAIN workers :
            ActiveWithNumber(workers[k]) =>
                (~Emitted(k) <=>
                    /\ MarkerValues(workers[k]) # <<>>
                    /\ IsNo(MarkerValues(workers[k])[1]))

\* a worker is returned although the second marker field of its own group, a
\* code field, says "No": the string field before it does not
C7_Witness ==
    /\ apc = "returned"
    /\ \E k \in DOMAIN workers :
          /\ ActiveWithNumber(workers[k])
          /\ Emitted(k)
          /\ Len(GroupMarkerValues(workers[k].CustomFieldGroup)) >= 2
          /\ ~IsNo(GroupMarkerValues(workers[k].CustomFieldGroup)[1])
          /\ IsNo(GroupMarkerValues(workers[k].CustomFieldGroup)[2])
          /\ workers[k].CustomFieldGroup.CodeFields # <<>>

\* C8: a marker field in the worker-level group decides alone; the assignments'
\* marker fields are consulted, in assignment order, only when the worker-level
\* group has none.
C8_WorkerLevelFirst ==
    apc = "returned" =>
        \A k \in DOMAIN workers :
            ActiveWithNumber(workers[k]) =>
                LET own == GroupMarkerValues(workers[k].CustomFieldGroup)
                    below == AssignmentMarkerValues(workers[k].WorkAssignments)
                IN /\ own # <<>> => (~Emitted(k) <=> IsNo(own[1]))
                   /\ own = <<>> =>
                        (~Emitted(k) <=> (below # <<>> /\ IsNo(below[1])))

\* a worker whose own marker is not "No" is returned although an assignment of
\* it carries "No"
C8_Witness ==
    /\ apc = "returned"
    /\ \E k \in DOMAIN workers :
          /\ ActiveWithNumber(workers[k])
          /\ Emitted(k)
          /\ GroupMarkerValues(workers[k].CustomFieldGroup) # <<>>
          /\ ~IsNo(GroupMarkerValues(workers[k].CustomFieldGroup)[1])
          /\ \E j \in DOMAIN AssignmentMarkerValues(workers[k].WorkAssignments) :
                IsNo(AssignmentMarkerValues(workers[k].WorkAssignments)[j])

C10_ExchangeWhenExpired ==
    [][ (apc = "ensure" /\ apc' # "ensure") =>
            /\ (tokenRequests' = tokenRequests + 1) <=>
                  (IF oauth2Token = NoToken THEN TRUE
                   ELSE now > oauth2Token.ExpiresAt - SafetyMargin)
            /\ tokenRequests' \in {tokenRequests, tokenRequests + 1}
            /\ tokenRequests' = tokenRequests =>
                  (oauth2Token' = oauth2Token /\ apc' = "request") ]_vars

\* the second page is about to be requested with the first page's token, kept
\* at the very minute ExpiresAt - 5
C10_Witness ==
    /\ apc = "request"
    /\ Len(pageRequests) = 1
    /\ tokenRequests = 1
    /\ oauth2Token # NoToken
    /\ now = oauth2Token.ExpiresAt - SafetyMargin

\* C11: a failed token exchange returns an error and leaves the cached token as
\* it was; the cached token changes only by a successful exchange, which sets
\* access token and expiry together, ExpiresAt = now + ExpiresIn; after a failed
\* exchange the call that needed the token fails and requests nothing more.
C11_TokenKeptOnFailure ==
    [][ /\ (tokenRequests' # tokenRequests /\ lastCheck'.err) =>
              /\ oauth2Token' = oauth2Token
              /\ adpErr' # Null
              /\ apc' = "failed"
              /\ workers' = <<>>
              /\ pageRequests' = pageRequests
        /\ (oauth2Token' # oauth2Token) =>
              /\ tokenRequests' = tokenRequests + 1
              /\ ~lastCheck'.err
              /\ adpErr' = Null
              /\ oauth2Token' # NoToken
              /\ oauth2Token'.AccessToken = tokenRequests'
              /\ oauth2Token'.ExpiresAt = now + oauth2Token'.ExpiresIn
        /\ (apc = "failed") =>
              (pageRequests' = pageRequests /\ tokenRequests' = tokenRequests)
      ]_vars

\* the exchange for the second page has failed some minutes after the first
\* one, and the token of the first page, run out, is still cached
C11_Witness ==
    /\ apc = "failed"
    /\ lastCheck.err
    /\ tokenRequests = 2
    /\ oauth2Token # NoToken
    /\ oauth2Token.AccessToken = 1
    /\ oauth2Token.ExpiresAt = oauth2Token.ExpiresIn + 1
    /\ Len(pageRequests) = 1

\* the pages received for the first k requests, one after the other
RECURSIVE PagesReceived(_)
PagesReceived(k) ==
    IF k = 0 THEN <<>>
    ELSE PagesReceived(k - 1) \o
         PageOf(hrWorkers, endless, pageRequests[k].top, pageRequests[k].skip)

\* C12: the k-th page request (k = 0, 1, ...) carries $top = 100 and
\* $skip = 100 * k; no request follows a page of fewer than 100 workers; on
\* success GetWorkers returns the pages received, in request order.
C12_PagesConcatenated ==
    /\ \A k \in DOMAIN pageRequests :
          /\ pageRequests[k].top = 100
          /\ pageRequests[k].skip = 100 * (k - 1)
          /\ k < Len(pageRequests) =>
                (pageRequests[k].ok /\ pageRequests[k].got = 100)
    /\ apc \in {"filter", "returned"} =>
          /\ pageRequests # <<>>
          /\ pageRequests[Len(pageRequests)].ok
          /\ pageRequests[Len(pageRequests)].got < 100
          /\ workers = PagesReceived(Len(pageRequests))

\* two pages have been received, the second one short but not empty
C12_Witness ==
    /\ apc = "returned"
    /\ Len(pageRequests) = 2
    /\ pageRequests[2].skip = 100
    /\ pageRequests[2].got > 0
    /\ Len(workers) = 100 + pageRequests[2].got

\* ---- one run, from its first line (SpecRun)

\* C13: when the token check or the request for any page fails, the fetch
\* returns an error and no workers or drivers at all, whatever pages came
\* before, and the run ends without a lookup or an update in the fleet system.
C13_FetchFailureIsFatal ==
    (lastCheck.err \/ \E k \in DOMAIN pageRequests : ~pageRequests[k].ok) =>
        /\ apc = "failed"
        /\ adpErr # Null
        /\ workers = <<>>
        /\ driverHomeAddresses = <<>>
        /\ drivers = <<>>
        /\ findCalls = <<>>
        /\ updateCalls = <<>>
        /\ pc \in {"fetch", "exit1"}

\* the run has ended on the failure of the second page request; the first page
\* had come in full
C13_Witness ==
    /\ pc = "exit1"
    /\ apc = "failed"
    /\ Len(pageRequests) = 2
    /\ pageRequests[1].ok
    /\ ~pageRequests[2].ok
    /\ Len(allWorkers) = 100
    /\ workers = <<>>

\* ---- main (Spec), continued

\* the records returned to the lookups of this run, as pairs <<lookup, place>>
RecordsReturned ==
    { <<k, j>> \in (DOMAIN findCalls) \X (1..Len(fleet)) :
          j <= findCalls[k].records }

\* C14: in a run whose fetch succeeded every driver gets exactly one FindDrivers
\* call and every record returned is evaluated exactly once, whatever failed
\* before; a failed lookup adds one to errors and causes no update call for its
\* driver.
C14_FailuresLocalAndCounted ==
    /\ \A k \in DOMAIN findCalls : findCalls[k].driver = k
    /\ \A k \in DOMAIN findCalls :
          findCalls[k].records = -1 =>
              \A u \in DOMAIN updateCalls : updateCalls[u].driver # k
    /\ \A u, v \in DOMAIN updateCalls :
          (/\ updateCalls[u].driver = updateCalls[v].driver
           /\ updateCalls[u].driverId = updateCalls[v].driverId) => u = v
    /\ report.errors >=
          Cardinality({k \in DOMAIN findCalls : findCalls[k].records = -1})
    /\ pc = "exit0" =>
          /\ Len(findCalls) = Len(drivers)
          /\ Len(updateCalls) = Cardinality(RecordsReturned)

\* C15: for a matched record that differs from the HR driver in address1,
\* address2 or postal prefix one update call is issued, to that record's
\* driverId and with the HR driver's address1, address2 and zipCode as they
\* are; when the call succeeds, updated grows by one.
C15_DifferingRecordUpdated ==
    [][ (pc = "records" /\ ~SameAddress(drivers[di], maDrivers[ri])) =>
            /\ Len(updateCalls') = Len(updateCalls) + 1
            /\ LET call == updateCalls'[Len(updateCalls')]
               IN /\ call.driverId = maDrivers[ri].DriverId
                  /\ call.address1 = drivers[di].Address1
                  /\ call.address2 = drivers[di].Address2
                  /\ call.zipCode = drivers[di].ZIPCode
            /\ (logged' = logged) => (report'.updated = report.updated + 1)
      ]_vars

\* the lines of the log that are a run summary
SummaryLines == {k \in DOMAIN logged : logged[k].err = "run summary"}

\* C16: a run whose fetch succeeded ends with exit code zero and with the run
\* summary written once, after the last driver, even when every lookup and
\* update failed; a run with a fatal error writes no summary and ends non-zero.
C16_SummaryOnCleanExit ==
    /\ pc = "exit0" =>
          /\ Cardinality(SummaryLines) = 1
          /\ Len(logged) \in SummaryLines
    /\ pc = "exit1" => SummaryLines = {}
    /\ pc = "loop" /\ di > Len(drivers) => SummaryLines = {}

\* ---- configuration (SpecRun)

\* an identifier, secret or base URL/endpoint is empty, or the certificate and
\* key pair does not load
BadConfig(c) ==
    \/ \E f \in {"ClientId", "ClientSecret", "BaseURL"} : c.Adp[f] = ""
    \/ \E f \in {"ClientId", "ClientSecret", "Endpoint"} : c.MikeAlbert[f] = ""
    \/ c.Adp.CertFile = ""
    \/ c.Adp.KeyFile = ""
    \/ ~c.KeyPairLoads

\* C17: with an empty client identifier, client secret or base URL/endpoint of
\* either service, or a certificate/key pair that does not load, the run stops
\* before any token exchange, page request, lookup or update.
C17_BadConfigStopsBeforeNetwork ==
    BadConfig(config) =>
        /\ pc \in {"start", "config", "newAdp", "newMikeAlbert", "exit1"}
        /\ tokenRequests = 0
        /\ pageRequests = <<>>
        /\ findCalls = <<>>
        /\ updateCalls = <<>>

\* the run has stopped in NewClient: every field was set but the key pair did
\* not load
C17_Witness ==
    /\ pc = "exit1"
    /\ ~config.KeyPairLoads
    /\ validate(config) = Null
    /\ tokenRequests = 0
    /\ pageRequests = <<>>

\* ---- paging (SpecAdp, SpecAdpFair)

\* C18: every page request follows a token check of its own and carries the
\* token cached after that check; a token that at the check was absent or past
\* ExpiresAt - 5 min has been exchanged before the request, any other is kept.
C18_TokenCheckedPerPage ==
    [][ (pageRequests' # pageRequests) =>
            /\ tokenChecks = Len(pageRequests) + 1
            /\ ~lastCheck.err
            /\ lastCheck.after # NoToken
            /\ oauth2Token = lastCheck.after
            /\ pageRequests'[Len(pageRequests')].token = lastCheck.after.AccessToken
            /\ IF lastCheck.before = NoToken
               THEN TRUE
               ELSE IF lastCheck.at > lastCheck.before.ExpiresAt - 5
                    THEN lastCheck.after.AccessToken # lastCheck.before.AccessToken
                    ELSE lastCheck.after = lastCheck.before
      ]_vars

\* the second page has been requested with a new token: the first one, good
\* for 6 minutes, had passed its margin when the second check came
C18_Witness ==
    /\ Len(pageRequests) = 2
    /\ pageRequests[1].token # pageRequests[2].token
    /\ lastCheck.before # NoToken
    /\ lastCheck.before.ExpiresIn = 6
    /\ lastCheck.at > lastCheck.before.ExpiresAt - 5
    /\ lastCheck.after.AccessToken = pageRequests[2].token

\* GetWorkers has returned
Terminated == apc \in {"filter", "returned", "failed"}

PageRequestFailed == \E k \in DOMAIN pageRequests : ~pageRequests[k].ok
ShortPage ==
    \E k \in DOMAIN pageRequests : pageRequests[k].ok /\ pageRequests[k].got < 100

\* C19 as stated: GetWorkers terminates if and only if some page request fails
\* or some page has fewer than 100 workers.
C19_TerminatesOnlyByPages ==
    Terminated <=> (PageRequestFailed \/ ShortPage)

\* what holds of GetWorkers at every moment
C19_Safety ==
    /\ Terminated <=> (lastCheck.err \/ PageRequestFailed \/ ShortPage)
    /\ (Terminated /\ adpErr = Null /\ ~endless) =>
          Len(pageRequests) = (Len(hrWorkers) \div 100) + 1
    /\ (Terminated /\ endless) => adpErr # Null

\* C19 amended: GetWorkers terminates if and only if a token exchange fails, a
\* page request fails, or a page has fewer than 100 workers; against a finite
\* collection of N workers served by $skip it terminates, after exactly
\* floor(N/100) + 1 page requests when nothing fails; against an upstream with
\* a full page for every request it ends only by a failure.
C19_TerminatesWhenPagesEnd ==
    /\ []C19_Safety
    /\ (~endless) => <>Terminated

\* GetWorkers has returned 100 workers after two requests, the second page
\* empty
C19_Witness ==
    /\ apc = "returned"
    /\ adpErr = Null
    /\ Len(hrWorkers) = 100
    /\ Len(pageRequests) = 2
    /\ pageRequests[2].got = 0

\* ---- GetDriverHomeAddresses (SpecFilter), continued

\* the worker's opt-out value: the value of its first marker field, trimmed
OptOutValue(w) ==
    IF MarkerValues(w) = <<>> THEN sEmpty ELSE TrimSpace(MarkerValues(w)[1])

\* the places of the workers that satisfy ok, in fetch order
PlacesWhere(ok(_)) ==
    SelectSeq([k \in 1..Len(workers) |-> k], LAMBDA k : ok(workers[k]))

\* each driver returned carries its worker's payroll file number, legal name
\* and legal address as they came, and the counts stay within the workers
DriversAsFetched ==
    /\ Len(driverHomeAddresses) = Len(emitted)
    /\ \A j \in DOMAIN driverHomeAddresses :
          LET d == driverHomeAddresses[j]
              w == workers[emitted[j]]
          IN /\ d.EmployeeNumber = w.WorkAssignments[1].PayrollFileNumber
             /\ d.FirstName = w.Person.LegalName.GivenName
             /\ d.LastName = w.Person.LegalName.FamilyName1
             /\ d.Address1 = w.Person.LegalAddress.LineOne
             /\ d.Address2 = w.Person.LegalAddress.LineTwo
             /\ d.City = w.Person.LegalAddress.CityName
             /\ d.State = w.Person.LegalAddress.CountrySubdivisionLevel1.CodeValue
             /\ d.ZIPCode = w.Person.LegalAddress.PostalCode
    /\ Len(driverHomeAddresses) + skippedInactive + skippedOverdrive
          <= Len(workers)

\* C20 as stated: the drivers returned are, in fetch order and one per worker,
\* those of the workers with an active first assignment (ignoring case), a
\* payroll file number and an opt-out value not equal to "No".
C20_SubsequenceNotNo ==
    apc = "returned" =>
        /\ emitted = PlacesWhere(LAMBDA w : /\ ActiveWithNumber(w)
                                            /\ OptOutValue(w) # sNo)
        /\ DriversAsFetched

\* C20 amended: the same, with an opt-out value not equal to "No" ignoring
\* letter case.
C20_SubsequenceNotNoAnyCase ==
    apc = "returned" =>
        /\ emitted = PlacesWhere(LAMBDA w : /\ ActiveWithNumber(w)
                                            /\ ~EqualFold(OptOutValue(w), sNo))
        /\ DriversAsFetched

\* of two workers the second alone has been returned: the first one's opt-out
\* value is "No" in another casing
C20_Witness ==
    /\ apc = "returned"
    /\ Len(workers) = 2
    /\ emitted = <<2>>
    /\ ActiveWithNumber(workers[1])
    /\ OptOutValue(workers[1]) # sNo
    /\ EqualFold(OptOutValue(workers[1]), sNo)

====
